---- MODULE Spec2Model ----
(***************************************************************************)
(* unwrappy: the lazy Result pipeline (LazyResult) of src/unwrappy/result.py *)
(* as a state machine.  Pipeline values are built by the constructors and   *)
(* the chain methods; collect() calls run as tasks of one event loop, one   *)
(* task holding the thread at a time and giving it up only at an await of   *)
(* an awaitable.  The methods of Result, sequence and traverse are pure      *)
(* calls: each is modelled by the value it returns or the exception it      *)
(* raises, the invocations of the supplied function and the items it asks   *)
(* its iterable for.                                                        *)
(***************************************************************************)
EXTENDS Integers, Sequences, FiniteSets, TLC

\* ------------------------------------------------------------------ bounds
MaxPipes == 3
MaxTasks == 2
MaxOps == 2
MaxVal == 2
MaxDepth == 3
MaxLen == 3
MaxNest == 2

\* ------------------------------------------------------------------ values
\* Every Python value of the model is a record [tag, val].
Raw(n) == [tag |-> "raw", val |-> n]
NoValue == [tag |-> "None", val |-> 0]
Exc(name) == [tag |-> "exc", val |-> name]

\* An outcome of running code: it returns a value or raises an exception.
Ret(v) == [k |-> "ret", v |-> v]
Raise(name) == [k |-> "raise", v |-> Exc(name)]

\* class Ok / class Err
Ok(v) == [tag |-> "Ok", val |-> v]
Err(e) == [tag |-> "Err", val |-> e]

IsResult(r) == r.tag \in {"Ok", "Err"}

\* Ok.is_ok returns True, Err.is_ok returns False
is_ok(r) == r.tag = "Ok"

\* An is_err that would hold of every Result.
is_err_always(r) == TRUE

\* An is_err that would answer as is_ok does.
is_err_same(r) == is_ok(r)

\* Result.is_err: not self.is_ok()
is_err(r) == ~is_ok(r)

\* Ok.unwrap / Err.unwrap_err: the payload
unwrap(r) == r.val
unwrap_err(r) == r.val

\* A coroutine object (the result of calling an async def function): awaiting
\* it runs the body, which ends in the outcome o.  It can be awaited once.
Coro(o) == [tag |-> "coro", val |-> o]

\* A future: awaiting it yields its outcome o, any number of times.
Future(o) == [tag |-> "future", val |-> o]

\* A _maybe_await that would pass every value through.
isawaitable_never(v) == FALSE

\* inspect.isawaitable(value), as used by _maybe_await
isawaitable(v) == v.tag \in {"coro", "future"}

\* ----------------------------------------------------- supplied functions
\* The functions callers hand to the chain methods, by name.
\*   inc    lambda x: x + 1          (TypeError on a payload that is no number)
\*   toOk   lambda x: Ok(x)
\*   toErr  lambda x: Err(x)
\*   boom   a function that raises
\* and to the methods of Result and to traverse (ResultFns) also
\*   id     lambda x: x
\*   maybe_fail   Err(x) on the value 1, Ok(x) on any other number
FnNames == {"inc", "toOk", "toErr", "boom"}

Apply(fn, x) ==
  CASE fn = "inc" -> IF x.tag = "raw" THEN Ret(Raw((x.val + 1) % MaxVal))
                     ELSE Raise("TypeError")
    [] fn = "toOk" -> Ret(Ok(x))
    [] fn = "toErr" -> Ret(Err(x))
    [] fn = "boom" -> Raise("Boom")
    [] fn = "id" -> Ret(x)
    [] fn = "maybe_fail" -> IF x.tag # "raw" THEN Raise("TypeError")
                            ELSE IF x.val = 1 THEN Ret(Err(x)) ELSE Ret(Ok(x))

\* ------------------------------------------------- operation descriptors
\* MapOp(fn) ... InspectErrOp(fn), FlattenOp(): frozen dataclasses.  isAsync
\* says that fn is an async def function: calling it returns a coroutine.
FnKinds == {"map", "map_err", "and_then", "or_else", "tee", "inspect_err"}
OkKinds == {"map", "and_then", "tee"}
ErrKinds == {"map_err", "or_else", "inspect_err"}

Op(kind, fn, isAsync) == [kind |-> kind, fn |-> fn, isAsync |-> isAsync]
FlattenOp == [kind |-> "flatten", fn |-> "-", isAsync |-> FALSE]

\* fn(payload): the call itself.  An async def function returns a coroutine
\* without running its body; a plain function returns or raises.
Call(op, x) == IF op.isAsync THEN Ret(Coro(Apply(op.fn, x))) ELSE Apply(op.fn, x)

\* ------------------------------------------------------------- the inputs
\* The functions handed to each chain method while pipelines are built and
\* shared (specification Spec): <<name, is it async def>>.
MapFns == {<<"inc", FALSE>>, <<"inc", TRUE>>}
MapErrFns == {<<"inc", FALSE>>}
AndThenFns == {<<"toErr", FALSE>>}
OrElseFns == {<<"toOk", TRUE>>}
TeeFns == {<<"boom", FALSE>>}
InspectErrFns == {<<"inc", TRUE>>}

\* The payloads and sources handed to the constructors under Spec.
Seeds == {Raw(0)}
Results == {Ok(v) : v \in Seeds} \cup {Err(e) : e \in Seeds}
Awaitables == {Coro(Ret(Ok(Raw(0)))), Future(Ret(Ok(Raw(0))))}

Tasks == 1 .. MaxTasks

\* ------------------------------------------------------------------ state
VARIABLES
  pipes,     \* the LazyResult values built so far: records [source, ops]
  awaited,   \* the coroutine objects given as sources that were awaited
  tasks,     \* the collect() calls: task -> its frame
  calls,     \* every invocation of a supplied function: who, which, on what
  res        \* the last call of a Result method, sequence or traverse

vars == <<pipes, awaited, tasks, calls, res>>

\* LazyResult.__init__
LazyResult(source, operations) == [source |-> source, ops |-> operations]

\* The frame of a collect() call that was not made yet.
\*   pc    idle, await_source, loop, await_fn, done, raised
\*   idx   the number of the iteration of `for op in self._operations`
\*   cur   the local `result`;  pend  the awaitable being awaited
\*   out   the Result returned, or the exception that left collect()
\*   hist  the values `result` took: the source's, then one per operation
\*   log   the functions this call invoked, in order
IdleTask ==
  [pc |-> "idle", pipe |-> LazyResult(NoValue, <<>>), idx |-> 0,
   cur |-> NoValue, pend |-> NoValue, out |-> NoValue, hist |-> <<>>,
   log |-> <<>>]

\* No Result method, sequence or traverse was called.
\*   method   the method or function called;  self  its receiver or iterable
\*   arg      the function or message handed to it
\*   out      what the call returned or raised
\*   invoked  the arguments the supplied function was invoked on, in order
\*   pulled   the items requested from the iterable, in order
NoCall ==
  [method |-> "-", self |-> NoValue, arg |-> "-", out |-> Ret(NoValue),
   invoked |-> <<>>, pulled |-> <<>>]

Init ==
  /\ pipes = {}
  /\ awaited = {}
  /\ tasks = [t \in Tasks |-> IdleTask]
  /\ calls = {}
  /\ res = NoCall

\* ------------------------------------------------------------ construction
\* A constructor or chain method returns the pipeline p, having invoked the
\* functions in c (none of them does).
Build(p, c) ==
  /\ Cardinality(pipes) < MaxPipes
  /\ p \notin pipes
  /\ pipes' = pipes \cup {p}
  /\ calls' = calls \cup c
  /\ UNCHANGED <<awaited, tasks, res>>

\* LazyResult.ok(value)
ok == \E v \in Seeds : Build(LazyResult(Ok(v), <<>>), {})

\* LazyResult.err(error)
err == \E e \in Seeds : Build(LazyResult(Err(e), <<>>), {})

\* LazyResult.from_result(result)
from_result == \E r \in Results : Build(LazyResult(r, <<>>), {})

\* Result.lazy(): LazyResult.from_result(self)
lazy == \E r \in Results : Build(LazyResult(r, <<>>), {})

\* LazyResult.from_awaitable(awaitable)
from_awaitable == \E a \in Awaitables : Build(LazyResult(a, <<>>), {})

\* LazyResult._chain: a new LazyResult with the operation appended
_chain(self, op) == LazyResult(self.source, Append(self.ops, op))

\* A chain method that would run its function when the pipeline is built.
Chained_eager(self, op) ==
  Build(_chain(self, op),
        {[task |-> 0, pos |-> Len(self.ops) + 1, fn |-> op.fn, arg |-> self.source]})

\* A chain method that would append to its receiver's operations in place
\* and return the receiver.
Chained_inplace(self, op) ==
  /\ _chain(self, op) \notin pipes
  /\ pipes' = (pipes \ {self}) \cup {_chain(self, op)}
  /\ UNCHANGED <<awaited, tasks, calls, res>>

\* LazyResult.map ... LazyResult.flatten: what the method does with its
\* receiver and descriptor
Chained(self, op) == Build(_chain(self, op), {})

map == \E self \in pipes, f \in MapFns : Chained(self, Op("map", f[1], f[2]))

map_err == \E self \in pipes, f \in MapErrFns : Chained(self, Op("map_err", f[1], f[2]))

and_then == \E self \in pipes, f \in AndThenFns : Chained(self, Op("and_then", f[1], f[2]))

or_else == \E self \in pipes, f \in OrElseFns : Chained(self, Op("or_else", f[1], f[2]))

tee == \E self \in pipes, f \in TeeFns : Chained(self, Op("tee", f[1], f[2]))

inspect_err == \E self \in pipes, f \in InspectErrFns :
  Chained(self, Op("inspect_err", f[1], f[2]))

flatten == \E self \in pipes : Chained(self, FlattenOp)

\* ---------------------------------------------------------------- collect
\* A frame whose `result` becomes r (the source's value, or the value an
\* operation returned), with iteration i of the loop next.
Advance(tk, r, i) ==
  [tk EXCEPT !.pc = "loop", !.cur = r, !.idx = i, !.pend = NoValue,
             !.hist = Append(tk.hist, r)]

\* A pipeline that would catch the exception and go on with Err(e).
Raised_asErr(tk, e) == Advance(tk, Err(e), tk.idx + 1)

\* A collect() that would call the function of the next operation on the
\* current result before the exception leaves it.
Raised_late(tk, e) ==
  LET n == tk.idx + 1
      lg == IF n <= Len(tk.pipe.ops)
              THEN Append(tk.log, [pos |-> n, fn |-> tk.pipe.ops[n].fn,
                                   arg |-> tk.cur, seen |-> Len(tk.hist)])
              ELSE tk.log IN
  [tk EXCEPT !.pc = "raised", !.out = e, !.pend = NoValue, !.log = lg]

\* A frame that ends with the exception e propagating out of collect().
Raised(tk, e) == [tk EXCEPT !.pc = "raised", !.out = e, !.pend = NoValue]

\* A frame suspended in `return await value` of _maybe_await.
Await(tk, pc, v) == [tk EXCEPT !.pc = pc, !.pend = v]

\* A collect() that would keep `result` on the pipeline: a call made while
\* another collect() of the same pipeline is under way starts from the
\* value that one has reached.
Start_written(self, aw) ==
  LET tk == [IdleTask EXCEPT !.pipe = self]
      under == {u \in Tasks : tasks[u].pipe = self /\ tasks[u].pc = "await_fn"} IN
  IF under # {}
    THEN Advance(tk, tasks[CHOOSE u \in under : TRUE].cur, 1)
    ELSE Advance(tk, self.source, 1)

\* collect() from its call to `await _maybe_await(self._source)`: a concrete
\* source passes through, an awaitable one is awaited; a coroutine that was
\* awaited before raises RuntimeError (cannot reuse already awaited coroutine).
Start(self, aw) ==
  LET tk == [IdleTask EXCEPT !.pipe = self] IN
  IF isawaitable(self.source)
    THEN IF self.source.tag = "coro" /\ self.source \in aw
           THEN Raised(tk, Exc("RuntimeError"))
           ELSE Await(tk, "await_source", self.source)
    ELSE Advance(tk, self.source, 1)

\* `if result.is_ok():` / `if result.is_err():` of the operation's case
Acts(kind, r) == IF kind \in OkKinds THEN is_ok(r) ELSE is_err(r)

\* result.unwrap() / result.unwrap_err(): the argument of fn
Payload(kind, r) == IF kind \in OkKinds THEN unwrap(r) ELSE unwrap_err(r)

\* An _execute_op that would wrap the value of and_then / or_else as map
\* and map_err do.
OnValue_wrap(kind, r, v) ==
  CASE kind \in {"map", "and_then"} -> Ok(v)
    [] kind \in {"map_err", "or_else"} -> Err(v)
    [] kind \in {"tee", "inspect_err"} -> r

\* An _execute_op that would return what the tee / inspect_err function
\* returned.
OnValue_teeReturns(kind, r, v) ==
  CASE kind = "map" -> Ok(v)
    [] kind = "map_err" -> Err(v)
    [] kind \in {"and_then", "or_else", "tee", "inspect_err"} -> v

\* An _execute_op in which map would build an Err and map_err an Ok.
OnValue_swapped(kind, r, v) ==
  CASE kind = "map" -> Err(v)
    [] kind = "map_err" -> Ok(v)
    [] kind \in {"and_then", "or_else"} -> v
    [] kind \in {"tee", "inspect_err"} -> r

\* what _execute_op returns once fn's value v is there
OnValue(kind, r, v) ==
  CASE kind = "map" -> Ok(v)
    [] kind = "map_err" -> Err(v)
    [] kind \in {"and_then", "or_else"} -> v
    [] kind \in {"tee", "inspect_err"} -> r

\* An _execute_op whose flatten would leave an Ok that holds no Result as
\* it is.
OnFlatten_checked(r) == IF is_ok(r) /\ IsResult(unwrap(r)) THEN unwrap(r) ELSE r

\* case FlattenOp()
OnFlatten(r) == IF is_ok(r) THEN unwrap(r) ELSE r

\* A loop that would walk the operations last to first.
OpAt_reversed(n, i) == n + 1 - i

\* `for op in self._operations`: the position of the operation that
\* iteration i runs, of n
OpAt(n, i) == i

\* An _execute_op that would give up the thread after every function call,
\* whether or not the value the function returned is awaitable.
ExecuteOp_yields(tk) ==
  LET k == OpAt(Len(tk.pipe.ops), tk.idx)
      op == tk.pipe.ops[k]
      r == tk.cur
      x == Payload(op.kind, r)
      o == Call(op, x)
      tc == [tk EXCEPT !.log = Append(tk.log,
               [pos |-> k, fn |-> op.fn, arg |-> x, seen |-> Len(tk.hist)])] IN
  IF ~IsResult(r) THEN Raised(tk, Exc("AttributeError"))
  ELSE IF op.kind = "flatten" THEN Advance(tk, OnFlatten(r), tk.idx + 1)
  ELSE IF ~Acts(op.kind, r) THEN Advance(tk, r, tk.idx + 1)
  ELSE IF o.k = "raise" THEN Raised(tc, o.v)
  ELSE IF isawaitable(o.v) THEN Await(tc, "await_fn", o.v)
  ELSE Await(tc, "await_fn", Future(o))

\* _execute_op(result, op) for the iteration the frame is at, up to its
\* await or to its return.  A value that is no Result has no is_ok / is_err:
\* AttributeError.
ExecuteOp(tk) ==
  LET k == OpAt(Len(tk.pipe.ops), tk.idx)
      op == tk.pipe.ops[k]
      r == tk.cur
      x == Payload(op.kind, r)
      o == Call(op, x)
      tc == [tk EXCEPT !.log = Append(tk.log,
               [pos |-> k, fn |-> op.fn, arg |-> x, seen |-> Len(tk.hist)])] IN
  IF ~IsResult(r) THEN Raised(tk, Exc("AttributeError"))
  ELSE IF op.kind = "flatten" THEN Advance(tk, OnFlatten(r), tk.idx + 1)
  ELSE IF ~Acts(op.kind, r) THEN Advance(tk, r, tk.idx + 1)
  ELSE IF o.k = "raise" THEN Raised(tc, o.v)
  ELSE IF isawaitable(o.v) THEN Await(tc, "await_fn", o.v)
  ELSE Advance(tc, OnValue(op.kind, r, o.v), tk.idx + 1)

\* An _execute_op that would call the function once more when the value it
\* awaited is there.
Resolve_again(tk) ==
  LET o == tk.pend.val
      op == tk.pipe.ops[OpAt(Len(tk.pipe.ops), tk.idx)]
      tc == IF tk.pc = "await_fn"
              THEN [tk EXCEPT !.log = Append(tk.log, tk.log[Len(tk.log)])]
              ELSE tk IN
  IF o.k = "raise" THEN Raised(tc, o.v)
  ELSE IF tk.pc = "await_source" THEN Advance(tc, o.v, 1)
  ELSE Advance(tc, OnValue(op.kind, tk.cur, o.v), tk.idx + 1)

\* The awaited value resolves, or fails: the await returns into
\* collect() (the source) or into _execute_op (a function's value).
Resolve(tk) ==
  LET o == tk.pend.val
      op == tk.pipe.ops[OpAt(Len(tk.pipe.ops), tk.idx)] IN
  IF o.k = "raise" THEN Raised(tk, o.v)
  ELSE IF tk.pc = "await_source" THEN Advance(tk, o.v, 1)
  ELSE Advance(tk, OnValue(op.kind, tk.cur, o.v), tk.idx + 1)

\* A collect() that would stop after one operation without returning.
Run_stalls(tk) ==
  IF tk.pc # "loop" \/ tk.idx > Len(tk.pipe.ops) THEN tk ELSE ExecuteOp(tk)

\* collect() runs on without giving up the thread: the loop over the
\* operations until an await of an awaitable, an exception, or `return result`.
RECURSIVE Run(_)
Run(tk) ==
  IF tk.pc # "loop" THEN tk
  ELSE IF tk.idx > Len(tk.pipe.ops) THEN [tk EXCEPT !.pc = "done", !.out = tk.cur]
  ELSE Run(ExecuteOp(tk))

\* the invocations a frame has made, as task t's
CallsOf(t, tk) ==
  {[task |-> t, pos |-> tk.log[j].pos, fn |-> tk.log[j].fn, arg |-> tk.log[j].arg] :
     j \in 1 .. Len(tk.log)}

\* await lazy.collect(): the call, up to its first suspension or its end.
\* Tasks are numbered in the order of the calls.
collect(t) == \E self \in pipes :
  LET tk == Run(Start(self, awaited)) IN
  /\ tasks[t].pc = "idle"
  /\ \A u \in 1 .. (t - 1) : tasks[u].pc # "idle"
  /\ tasks' = [tasks EXCEPT ![t] = tk]
  /\ awaited' = IF self.source.tag = "coro" THEN awaited \cup {self.source} ELSE awaited
  /\ calls' = calls \cup CallsOf(t, tk)
  /\ UNCHANGED <<pipes, res>>

\* the event loop resumes a collect() suspended on its source
ResumeSource(t) ==
  /\ tasks[t].pc = "await_source"
  /\ \E r \in {Resolve(tasks[t])} : \E tk \in {Run(r)} :
       /\ tasks' = [tasks EXCEPT ![t] = tk]
       /\ calls' = calls \cup CallsOf(t, tk)
  /\ UNCHANGED <<pipes, awaited, res>>

\* the event loop resumes a collect() suspended on a function's value
ResumeOp(t) ==
  /\ tasks[t].pc = "await_fn"
  /\ \E r \in {Resolve(tasks[t])} : \E tk \in {Run(r)} :
       /\ tasks' = [tasks EXCEPT ![t] = tk]
       /\ calls' = calls \cup CallsOf(t, tk)
  /\ UNCHANGED <<pipes, awaited, res>>

Next ==
  \/ ok
  \/ err
  \/ from_result
  \/ lazy
  \/ from_awaitable
  \/ map
  \/ map_err
  \/ and_then
  \/ or_else
  \/ tee
  \/ inspect_err
  \/ flatten
  \/ \E t \in Tasks : collect(t)
  \/ \E t \in Tasks : ResumeSource(t)
  \/ \E t \in Tasks : ResumeOp(t)

Spec == Init /\ [][Next]_vars

\* ------------------------------------------------- one pipeline, one collect
\* Every pipeline of at most MaxOps operations over every kind, function and
\* sync/async choice, on every kind of source, and one collect() of it
\* (specification SpecRun).
AllOps == {Op(k, f, a) : k \in FnKinds, f \in FnNames, a \in BOOLEAN} \cup {FlattenOp}

RunSources ==
  {Ok(Raw(0)), Err(Raw(0)), Ok(Ok(Raw(0))), Ok(Err(Raw(0)))}
    \cup {Coro(o) : o \in {Ret(Ok(Raw(0))), Ret(Err(Raw(0))), Raise("Boom")}}

\* lazy = LazyResult.ok(..) / err(..) / from_awaitable(..): the pipeline
\* the program starts from
RunInit ==
  /\ pipes \in {{LazyResult(s, <<>>)} : s \in RunSources}
  /\ awaited = {}
  /\ tasks = [t \in Tasks |-> IdleTask]
  /\ calls = {}
  /\ res = NoCall

\* lazy = lazy.map(fn) ... lazy = lazy.flatten(): the program goes on with
\* the pipeline the chain method returned
Extend == \E self \in pipes, op \in AllOps :
  /\ tasks[1].pc = "idle"
  /\ Len(self.ops) < MaxOps
  /\ pipes' = {_chain(self, op)}
  /\ UNCHANGED <<awaited, tasks, calls, res>>

RunNext ==
  \/ Extend
  \/ collect(1)
  \/ ResumeSource(1)
  \/ ResumeOp(1)

SpecRun == RunInit /\ [][RunNext]_vars

\* The same program on an event loop that resumes every suspended collect()
\* once the value it awaits has resolved or failed (specification SpecLive).
SpecLive ==
  /\ RunInit
  /\ [][RunNext]_vars
  /\ WF_vars(ResumeSource(1))
  /\ WF_vars(ResumeOp(1))

\* ====================================================== the Result methods
\* class UnwrapError(Exception): the message and the value it carries
UnwrapError(message, value) ==
  [tag |-> "UnwrapError", val |-> [message |-> message, value |-> value]]

\* raise e
RaiseExc(e) == [k |-> "raise", v |-> e]

\* repr(value), as the pieces of text it is made of: Ok.__repr__ and
\* Err.__repr__ put the payload's repr between "Ok(" / "Err(" and ")"
RECURSIVE repr(_)
repr(v) ==
  IF v.tag \in {"Ok", "Err"} THEN <<v.tag, "(">> \o repr(v.val) \o <<")">>
  ELSE <<ToString(v.val)>>

\* f"{msg}: {value!r}"
Message(msg, value) == <<msg, ": ">> \o repr(value)

\* What a call did: what it returned or raised, the arguments it invoked
\* the supplied function on, the items it requested from its iterable.
Did(o, inv, pl) == [out |-> o, invoked |-> inv, pulled |-> pl]

\* Ok.unwrap returns the value, Err.unwrap raises UnwrapError with the error
Result_unwrap(self) ==
  IF self.tag = "Ok" THEN Ret(self.val)
  ELSE RaiseExc(UnwrapError(<<"Called unwrap on Err">>, self.val))

\* Err.unwrap_err returns the error, Ok.unwrap_err raises UnwrapError with
\* the value
Result_unwrap_err(self) ==
  IF self.tag = "Err" THEN Ret(self.val)
  ELSE RaiseExc(UnwrapError(<<"Called unwrap_err on Ok">>, self.val))

\* An expect that would raise what unwrap raises.
Result_expect_plain(self, msg) == Result_unwrap(self)

\* Result.expect(msg)
Result_expect(self, msg) ==
  IF is_ok(self) THEN Result_unwrap(self)
  ELSE RaiseExc(UnwrapError(Message(msg, unwrap_err(self)), unwrap_err(self)))

\* Result.expect_err(msg)
Result_expect_err(self, msg) ==
  IF is_err(self) THEN Result_unwrap_err(self)
  ELSE RaiseExc(UnwrapError(Message(msg, unwrap(self)), unwrap(self)))

\* fn(x) inside a method: what fn returned or raised, fn invoked on x
Invoke(fn, x) == Did(Apply(fn, x), <<x>>, <<>>)

\* The method returns v after the call d of fn; an exception of fn leaves
\* the method instead.
Returning(d, v) == IF d.out.k = "ret" THEN [d EXCEPT !.out = Ret(v)] ELSE d

\* what fn returned in the call d
Value(d) == d.out.v

\* A map that would call fn on the payload of either variant.
Result_map_always(self, fn) ==
  LET d == Invoke(fn, self.val) IN Returning(d, Ok(Value(d)))

\* Result.map(fn)
Result_map(self, fn) ==
  LET d == Invoke(fn, unwrap(self)) IN
  IF is_ok(self) THEN Returning(d, Ok(Value(d)))
  ELSE Did(Ret(Err(unwrap_err(self))), <<>>, <<>>)

\* Result.map_err(fn)
Result_map_err(self, fn) ==
  LET d == Invoke(fn, unwrap_err(self)) IN
  IF is_err(self) THEN Returning(d, Err(Value(d)))
  ELSE Did(Ret(Ok(unwrap(self))), <<>>, <<>>)

\* An and_then that would wrap what fn returned, as map does.
Result_and_then_wrap(self, fn) ==
  LET d == Invoke(fn, unwrap(self)) IN
  IF is_ok(self) THEN Returning(d, Ok(Value(d)))
  ELSE Did(Ret(Err(unwrap_err(self))), <<>>, <<>>)

\* Result.and_then(fn)
Result_and_then(self, fn) ==
  LET d == Invoke(fn, unwrap(self)) IN
  IF is_ok(self) THEN Returning(d, Value(d))
  ELSE Did(Ret(Err(unwrap_err(self))), <<>>, <<>>)

\* Result.or_else(fn)
Result_or_else(self, fn) ==
  LET d == Invoke(fn, unwrap_err(self)) IN
  IF is_ok(self) THEN Did(Ret(Ok(unwrap(self))), <<>>, <<>>)
  ELSE Returning(d, Value(d))

\* Result.tee(fn) / Result.inspect(fn)
Result_tee(self, fn) ==
  LET d == Invoke(fn, unwrap(self)) IN
  IF is_ok(self) THEN Returning(d, self)
  ELSE Did(Ret(self), <<>>, <<>>)

\* Result.inspect_err(fn)
Result_inspect_err(self, fn) ==
  LET d == Invoke(fn, unwrap_err(self)) IN
  IF is_err(self) THEN Returning(d, self)
  ELSE Did(Ret(self), <<>>, <<>>)

\* A flatten that would remove every level of nesting.
RECURSIVE Result_flatten_all(_)
Result_flatten_all(self) ==
  IF is_ok(self) /\ IsResult(unwrap(self)) THEN Result_flatten_all(unwrap(self))
  ELSE Ret(self)

\* Result.flatten()
Result_flatten(self) ==
  IF is_ok(self) THEN Ret(unwrap(self)) ELSE Ret(Err(unwrap_err(self)))

\* Some(value) and NOTHING, the two variants of Option
Some(v) == [tag |-> "Some", val |-> v]
NOTHING == [tag |-> "Nothing", val |-> 0]

\* None, as a payload
None == NoValue

\* Result.ok(): self.unwrap() if self.is_ok() else None
Result_ok(self) == IF is_ok(self) THEN Ret(unwrap(self)) ELSE Ret(None)

\* Result.err(): self.unwrap_err() if self.is_err() else None
Result_err(self) == IF is_err(self) THEN Ret(unwrap_err(self)) ELSE Ret(None)

\* ---------------------------------------------------- sequence / traverse
\* A list, and the generator expression `(fn(item) for item in items)`:
\* the iterables handed to sequence.
List(items) == [tag |-> "list", val |-> items]
Gen(items, fn) == [tag |-> "gen", val |-> [items |-> items, fn |-> fn]]

\* the items behind an iterable
ItemsOf(it) == IF it.tag = "list" THEN it.val ELSE it.val.items

\* The i-th item the iterable yields when asked for it: a list holds it, a
\* generator expression evaluates fn(item) at that moment.
Yield(it, i) ==
  IF it.tag = "list" THEN Ret(it.val[i]) ELSE Apply(it.val.fn, it.val.items[i])

\* A sequence that would make a list of the whole iterable before looking
\* at any item: every item is requested and evaluated.
Requested_all(it, k) == [j \in 1 .. (Len(ItemsOf(it)) + 1) |-> j]

\* The requests `for r in results` has made when the loop is left at the
\* k-th one: the first k in order, and nothing after.
Requested(it, k) == [j \in 1 .. k |-> j]

\* the arguments a generator expression has invoked fn on, having been
\* asked for the items in pl
Evaluated(it, pl) ==
  IF it.tag = "list" THEN <<>>
  ELSE [j \in 1 .. (IF Len(pl) > Len(ItemsOf(it)) THEN Len(ItemsOf(it)) ELSE Len(pl))
          |-> ItemsOf(it)[j]]

\* A sequence that would put each value in front of the list.
Appended_front(values, v) == <<v>> \o values

\* values.append(r.unwrap())
Appended(values, v) == Append(values, v)

\* `for r in results:` from the i-th request on, values being the list
\* built so far.  An item that is no Result has no is_err: AttributeError.
RECURSIVE sequence_loop(_, _, _)
sequence_loop(it, i, values) ==
  LET o == Yield(it, i)
      left(out) == Did(out, Evaluated(it, Requested(it, i)), Requested(it, i)) IN
  IF i > Len(ItemsOf(it)) THEN left(Ret(Ok(List(values))))
  ELSE IF o.k = "raise" THEN left(o)
  ELSE IF ~IsResult(o.v) THEN left(Raise("AttributeError"))
  ELSE IF is_err(o.v) THEN left(Ret(Err(unwrap_err(o.v))))
  ELSE sequence_loop(it, i + 1, Appended(values, unwrap(o.v)))

\* sequence(results)
sequence(results) == sequence_loop(results, 1, <<>>)

\* A traverse that would call fn on every item first: sequence of the list
\* [fn(item) for item in items], with fn invoked on all of them.
traverse_eager(items, fn) ==
  LET all == [j \in 1 .. Len(items) |-> Apply(fn, items[j])]
      r == sequence(List([j \in 1 .. Len(items) |-> all[j].v])) IN
  Did(r.out, items, r.pulled)

\* traverse(items, fn): sequence(fn(item) for item in items)
traverse(items, fn) == sequence(Gen(items, fn))

\* --------------------------------------------------------- async variants
\* Calling `async def g` whose body computes what fn does: the call returns
\* a coroutine object and runs nothing; the body runs when it is awaited.
CallAsync(fn, x) == Coro(Apply(fn, x))

\* `await v` run to its end: the outcome of the awaitable; a value that is
\* not awaitable cannot be awaited
AwaitNow(v) == IF isawaitable(v) THEN v.val ELSE Raise("TypeError")

\* fn(x) called and awaited at once
InvokeAsync(fn, x) == Did(AwaitNow(CallAsync(fn, x)), <<x>>, <<>>)

\* A map_async that would not await what fn returned.
Result_map_async_unawaited(self, fn) ==
  IF is_ok(self) THEN Did(Ret(Ok(CallAsync(fn, unwrap(self)))), <<unwrap(self)>>, <<>>)
  ELSE Did(Ret(Err(unwrap_err(self))), <<>>, <<>>)

\* await Result.map_async(fn)
Result_map_async(self, fn) ==
  IF is_ok(self)
  THEN LET d == InvokeAsync(fn, unwrap(self)) IN Returning(d, Ok(Value(d)))
  ELSE Did(Ret(Err(unwrap_err(self))), <<>>, <<>>)

\* await Result.map_err_async(fn)
Result_map_err_async(self, fn) ==
  IF is_err(self)
  THEN LET d == InvokeAsync(fn, unwrap_err(self)) IN Returning(d, Err(Value(d)))
  ELSE Did(Ret(Ok(unwrap(self))), <<>>, <<>>)

\* await Result.and_then_async(fn)
Result_and_then_async(self, fn) ==
  IF is_ok(self) THEN InvokeAsync(fn, unwrap(self))
  ELSE Did(Ret(Err(unwrap_err(self))), <<>>, <<>>)

\* await Result.or_else_async(fn)
Result_or_else_async(self, fn) ==
  IF is_ok(self) THEN Did(Ret(Ok(unwrap(self))), <<>>, <<>>)
  ELSE InvokeAsync(fn, unwrap_err(self))

\* ------------------------------------------------- context / ChainedError
\* A str, as a payload
Str(s) == [tag |-> "str", val |-> s]

\* ChainedError: a context label and the error it wraps, which is a root
\* cause of any type or another ChainedError
ChainedError(context, original) ==
  [tag |-> "ChainedError", val |-> [context |-> context, original |-> original]]

\* ChainedError.root_cause(): the innermost error that is not a ChainedError
RECURSIVE root_cause(_)
root_cause(e) ==
  IF e.tag = "ChainedError" THEN root_cause(e.val.original) ELSE e

\* ChainedError.chain(): the labels, outermost first
RECURSIVE chain(_)
chain(e) ==
  IF e.tag = "ChainedError" THEN <<e.val.context>> \o chain(e.val.original)
  ELSE <<>>

\* str(e), as the pieces of text it is made of: the labels and the root
\* cause joined with ": ", outermost first
RECURSIVE str(_)
str(e) ==
  IF e.tag = "ChainedError" THEN <<e.val.context, ": ">> \o str(e.val.original)
  ELSE IF e.tag = "str" THEN <<e.val>>
  ELSE repr(e)

\* A context that would keep the latest label only, around the root cause.
Result_context_flat(self, label) ==
  IF is_err(self)
  THEN Ret(Err(ChainedError(label, root_cause(unwrap_err(self)))))
  ELSE Ret(self)

\* Result.context(label): an Err's payload wrapped in a ChainedError with
\* that label; an Ok as it is
Result_context(self, label) ==
  IF is_err(self) THEN Ret(Err(ChainedError(label, unwrap_err(self))))
  ELSE Ret(self)

\* -------------------------------------------------------------------- zip
\* A tuple, as a payload
Tuple(items) == [tag |-> "tuple", val |-> items]

\* A zip in which the argument's error would win.
Result_zip_second(self, other) ==
  IF is_ok(self) /\ is_ok(other)
  THEN Ret(Ok(Tuple(<<unwrap(self), unwrap(other)>>)))
  ELSE IF is_err(other) THEN Ret(Err(unwrap_err(other)))
  ELSE Ret(Err(unwrap_err(self)))

\* Result.zip(other): Ok of the pair when both are Ok, else the first Err,
\* the receiver's before the argument's
Result_zip(self, other) ==
  IF is_ok(self) /\ is_ok(other)
  THEN Ret(Ok(Tuple(<<unwrap(self), unwrap(other)>>)))
  ELSE IF is_err(self) THEN Ret(Err(unwrap_err(self)))
  ELSE Ret(Err(unwrap_err(other)))

\* ------------------------------------------- calls on Results (SpecResult)
\* The payloads, the Results up to MaxDepth levels of nesting, the functions
\* and messages, and the lists of at most MaxLen items the calls are made with.
Numbers == {Raw(n) : n \in 0 .. (MaxVal - 1)}

RECURSIVE ResultsOfDepth(_)
ResultsOfDepth(d) ==
  IF d = 0 THEN {}
  ELSE LET inner == Numbers \cup ResultsOfDepth(d - 1) IN
       {Ok(v) : v \in inner} \cup {Err(v) : v \in inner}

Receivers == ResultsOfDepth(MaxDepth)
ResultFns == FnNames \cup {"id", "maybe_fail"}
Msgs == {"custom message", "should not fail"}
Labels == {"level1", "level2"}
ListsOf(S) == UNION {[1 .. k -> S] : k \in 0 .. MaxLen}
Iterables ==
  {List(l) : l \in ListsOf(ResultsOfDepth(1))}
    \cup {Gen(l, fn) : l \in ListsOf(Numbers), fn \in ResultFns}

\* A call of a Result method, of sequence or of traverse has ended; no
\* pipeline is involved.  The calls keep no state between them: each one is
\* made from the state in which none was.
Called(method, self, arg, d) ==
  /\ res.method = NoCall.method
  /\ res' = [method |-> method, self |-> self, arg |-> arg, out |-> d.out,
             invoked |-> d.invoked, pulled |-> d.pulled]
  /\ UNCHANGED <<pipes, awaited, tasks, calls>>

call_unwrap == \E self \in Receivers :
  Called("unwrap", self, "-", Did(Result_unwrap(self), <<>>, <<>>))

call_unwrap_err == \E self \in Receivers :
  Called("unwrap_err", self, "-", Did(Result_unwrap_err(self), <<>>, <<>>))

call_expect == \E self \in Receivers, msg \in Msgs :
  Called("expect", self, msg, Did(Result_expect(self, msg), <<>>, <<>>))

call_expect_err == \E self \in Receivers, msg \in Msgs :
  Called("expect_err", self, msg, Did(Result_expect_err(self, msg), <<>>, <<>>))

call_map == \E self \in Receivers, fn \in ResultFns :
  Called("map", self, fn, Result_map(self, fn))

call_map_err == \E self \in Receivers, fn \in ResultFns :
  Called("map_err", self, fn, Result_map_err(self, fn))

call_and_then == \E self \in Receivers, fn \in ResultFns :
  Called("and_then", self, fn, Result_and_then(self, fn))

call_or_else == \E self \in Receivers, fn \in ResultFns :
  Called("or_else", self, fn, Result_or_else(self, fn))

call_tee == \E self \in Receivers, fn \in ResultFns :
  Called("tee", self, fn, Result_tee(self, fn))

call_inspect_err == \E self \in Receivers, fn \in ResultFns :
  Called("inspect_err", self, fn, Result_inspect_err(self, fn))

call_flatten == \E self \in Receivers :
  Called("flatten", self, "-", Did(Result_flatten(self), <<>>, <<>>))

call_ok == \E self \in Receivers \cup {Ok(None), Err(None)} :
  Called("ok", self, "-", Did(Result_ok(self), <<>>, <<>>))

call_err == \E self \in Receivers \cup {Ok(None), Err(None)} :
  Called("err", self, "-", Did(Result_err(self), <<>>, <<>>))

call_sequence == \E results \in Iterables :
  Called("sequence", results, "-", sequence(results))

call_traverse == \E items \in ListsOf(Numbers), fn \in ResultFns :
  Called("traverse", List(items), fn, traverse(items, fn))

call_map_async == \E self \in Receivers, fn \in ResultFns :
  Called("map_async", self, fn, Result_map_async(self, fn))

call_map_err_async == \E self \in Receivers, fn \in ResultFns :
  Called("map_err_async", self, fn, Result_map_err_async(self, fn))

call_and_then_async == \E self \in Receivers, fn \in ResultFns :
  Called("and_then_async", self, fn, Result_and_then_async(self, fn))

call_or_else_async == \E self \in Receivers, fn \in ResultFns :
  Called("or_else_async", self, fn, Result_or_else_async(self, fn))

\* self.context(label), on a Result or on what the last context returned
call_context == \E label \in Labels :
  \/ \E self \in Receivers \cup {Ok(Str("root")), Err(Str("root"))} :
       Called("context", self, label, Did(Result_context(self, label), <<>>, <<>>))
  \/ /\ res.method = "context"
     /\ Len(chain(res.out.v.val)) < MaxLen
     /\ res' = [res EXCEPT !.self = res.out.v, !.arg = label,
                           !.out = Result_context(res.out.v, label)]
     /\ UNCHANGED <<pipes, awaited, tasks, calls>>

call_zip == \E self \in Receivers, other \in ResultsOfDepth(MaxDepth - 1) :
  Called("zip", self, other, Did(Result_zip(self, other), <<>>, <<>>))

ResultNext ==
  \/ call_unwrap
  \/ call_unwrap_err
  \/ call_expect
  \/ call_expect_err
  \/ call_map
  \/ call_map_err
  \/ call_and_then
  \/ call_or_else
  \/ call_tee
  \/ call_inspect_err
  \/ call_flatten
  \/ call_ok
  \/ call_err
  \/ call_sequence
  \/ call_traverse
  \/ call_context
  \/ call_zip
  \/ call_map_async
  \/ call_map_err_async
  \/ call_and_then_async
  \/ call_or_else_async

SpecResult == Init /\ [][ResultNext]_vars

\* ================================================================ JSON codec
\* A dict (keys to values), as a payload
Dict(f) == [tag |-> "dict", val |-> f]

_TYPE_KEY == "__unwrappy_type__"

\* A JSON text, by what it denotes: null, a number, a string, an array of
\* texts, an object of keys and texts.
JNull == [tag |-> "json_null", val |-> 0]
JNumber(n) == [tag |-> "json_number", val |-> n]
JString(s) == [tag |-> "json_string", val |-> s]
JArray(a) == [tag |-> "json_array", val |-> a]
JObject(f) == [tag |-> "json_object", val |-> f]

\* ResultEncoder.default(o): the dict an Ok or an Err is encoded as; any
\* other object is not JSON serializable
default(o) ==
  CASE o.tag = "Ok" -> Ret(Dict((_TYPE_KEY :> Str("Ok")) @@ ("value" :> unwrap(o))))
    [] o.tag = "Err" -> Ret(Dict((_TYPE_KEY :> Str("Err")) @@ ("error" :> unwrap_err(o))))
    [] OTHER -> Raise("TypeError")

\* the outcomes os (a sequence or a dict of them) all returned
AllRet(os) == \A k \in DOMAIN os : os[k].k = "ret"
FirstRaise(os) == os[CHOOSE k \in DOMAIN os : os[k].k = "raise"]

\* json.dumps(obj, cls=ResultEncoder): None, numbers and strings as they
\* are, lists and dicts item by item, anything else through default()
RECURSIVE dumps(_)
dumps(obj) ==
  CASE obj.tag = "None" -> Ret(JNull)
    [] obj.tag = "raw" -> Ret(JNumber(obj.val))
    [] obj.tag = "str" -> Ret(JString(obj.val))
    [] obj.tag \in {"list", "dict"} ->
         LET os == [k \in DOMAIN obj.val |-> dumps(obj.val[k])] IN
         IF ~AllRet(os) THEN FirstRaise(os)
         ELSE IF obj.tag = "list" THEN Ret(JArray([k \in DOMAIN os |-> os[k].v]))
         ELSE Ret(JObject([k \in DOMAIN os |-> os[k].v]))
    [] OTHER -> IF default(obj).k = "raise" THEN default(obj)
                ELSE dumps(default(obj).v)

\* result_decoder(dct): the object hook
result_decoder(dct) ==
  LET d == dct.val IN
  IF _TYPE_KEY \notin DOMAIN d THEN Ret(dct)
  ELSE IF d[_TYPE_KEY] = Str("Ok")
    THEN IF "value" \in DOMAIN d THEN Ret(Ok(d["value"])) ELSE Raise("KeyError")
  ELSE IF d[_TYPE_KEY] = Str("Err")
    THEN IF "error" \in DOMAIN d THEN Ret(Err(d["error"])) ELSE Raise("KeyError")
  ELSE Ret(dct)

\* json.loads(s, object_hook=result_decoder): every object is decoded to a
\* dict, its members first, and handed to the hook
RECURSIVE loads(_)
loads(s) ==
  CASE s.tag = "json_null" -> Ret(None)
    [] s.tag = "json_number" -> Ret(Raw(s.val))
    [] s.tag = "json_string" -> Ret(Str(s.val))
    [] s.tag \in {"json_array", "json_object"} ->
         LET os == [k \in DOMAIN s.val |-> loads(s.val[k])] IN
         IF ~AllRet(os) THEN FirstRaise(os)
         ELSE IF s.tag = "json_array" THEN Ret(List([k \in DOMAIN os |-> os[k].v]))
         ELSE result_decoder(Dict([k \in DOMAIN os |-> os[k].v]))

\* The values handed to dumps: None, numbers and strings; Results and
\* Options, lists and dicts of them, nested up to MaxNest levels.
JsonAtoms == {None} \cup Numbers \cup {Str("Ok"), Str("Err"), Str("x")}

Around(V) ==
  {Ok(v) : v \in V} \cup {Err(v) : v \in V} \cup {Some(v) : v \in V} \cup {NOTHING}
    \cup {List(<<>>)} \cup {List(<<v>>) : v \in V}
    \cup {Dict("key" :> v) : v \in V}
    \cup {Dict((_TYPE_KEY :> t) @@ ("value" :> v)) : t \in JsonAtoms \ Numbers, v \in V}

RECURSIVE NestedUpTo(_)
NestedUpTo(d) ==
  IF d = 0 THEN JsonAtoms ELSE JsonAtoms \cup Around(NestedUpTo(d - 1))

SerdeValues == NestedUpTo(MaxNest)

\* dumps(obj)
call_dumps == \E obj \in SerdeValues :
  Called("dumps", obj, "-", Did(dumps(obj), <<>>, <<>>))

\* loads(s) of a text dumps produced
call_loads == \E obj \in SerdeValues :
  /\ dumps(obj).k = "ret"
  /\ Called("loads", dumps(obj).v, "-", Did(loads(dumps(obj).v), <<>>, <<>>))

SerdeNext ==
  \/ call_dumps
  \/ call_loads

SpecSerde == Init /\ [][SerdeNext]_vars

\* ================================================================== claims
Started(t) == tasks[t].pc # "idle"
Finished(t) == tasks[t].pc \in {"done", "raised"}

\* A collect() run to its end with every awaited value resolving at once.
RECURSIVE Full(_)
Full(tk) ==
  IF tk.pc \in {"done", "raised"} THEN tk
  ELSE IF tk.pc = "loop" THEN Full(Run(tk))
  ELSE Full(Run(Resolve(tk)))

\* What the first collect() of the pipeline p returns or raises.
FirstCollect(p) == Full(Start(p, {}))

\* The receiver a pipeline with operations was chained from.
Parent(p) == LazyResult(p.source, SubSeq(p.ops, 1, Len(p.ops) - 1))

\* C1: building pipelines invokes no supplied function and resolves no
\* source: while no collect() was called there is no invocation and no
\* awaited source; every invocation is by a collect() of a pipeline that
\* holds the function at that position, and every awaited source is the
\* source of a pipeline some collect() was called on.
C1_Deferred ==
  /\ (\A t \in Tasks : ~Started(t)) => (calls = {} /\ awaited = {})
  /\ \A c \in calls :
       /\ c.task \in Tasks
       /\ Started(c.task)
       /\ c.pos \in 1 .. Len(tasks[c.task].pipe.ops)
       /\ tasks[c.task].pipe.ops[c.pos].kind \in FnKinds
       /\ tasks[c.task].pipe.ops[c.pos].fn = c.fn
  /\ \A a \in awaited : \E t \in Tasks : Started(t) /\ tasks[t].pipe.source = a

\* a pipeline of two operations on a coroutine stands built, nothing ran
C1_Witness ==
  /\ \E p \in pipes : Len(p.ops) = 2 /\ p.source.tag = "coro" /\ p.ops[1].kind = "map"
  /\ \A t \in Tasks : ~Started(t)
  /\ calls = {}
  /\ awaited = {}

\* C2: every collect() that ended returned what a first collect() of its
\* pipeline returns, whatever was collected before it, for concrete sources
\* and for sources given to from_awaitable alike.
C2_Recollect ==
  \A t \in Tasks : Finished(t) =>
    /\ tasks[t].pc = FirstCollect(tasks[t].pipe).pc
    /\ tasks[t].out = FirstCollect(tasks[t].pipe).out

\* C3: a chain method adds one pipeline, its receiver's source and
\* operations plus one descriptor, and leaves every pipeline there was as it
\* was: each pipeline's receiver is still among the pipelines, so is the
\* pipeline of every collect() called, and a collect() of a pipeline whose
\* source can be resolved again returns the pipeline's own result.
C3_Branching ==
  /\ \A p \in pipes : p.ops # <<>> => Parent(p) \in pipes
  /\ \A t \in Tasks : Started(t) => tasks[t].pipe \in pipes
  /\ \A t \in Tasks : (Finished(t) /\ tasks[t].pipe.source.tag # "coro") =>
       tasks[t].out = FirstCollect(tasks[t].pipe).out

\* a receiver with two branches was collected after they were made
C3_Witness ==
  \E t \in Tasks, p \in pipes, q \in pipes :
    /\ p # q
    /\ p.ops # <<>> /\ q.ops # <<>>
    /\ Parent(p) = tasks[t].pipe /\ Parent(q) = tasks[t].pipe
    /\ tasks[t].pc = "done"
    /\ tasks[t].out = tasks[t].pipe.source

\* ------------------------------------------- one collect(), step by step
\* hist[i] is `result` when the i-th operation is reached, hist[i + 1] what
\* the i-th operation left.
StepsDone(t) == 1 .. (Len(tasks[t].hist) - 1)
OpOf(t, i) == tasks[t].pipe.ops[i]

\* The pipeline with every function a plain function returning what the
\* async one resolves to, and the source the Result its awaitable resolves to.
Desync(p) ==
  LazyResult(IF isawaitable(p.source) /\ p.source.val.k = "ret"
               THEN p.source.val.v ELSE p.source,
             [i \in 1 .. Len(p.ops) |-> [p.ops[i] EXCEPT !.isAsync = FALSE]])

SourceFails(p) == p.source.tag \in {"coro", "future"} /\ p.source.val.k = "raise"

\* C4: the operations run in append order, one at a time: when a function
\* is invoked the source and every operation before its own have left their
\* result (seen = pos), the positions invoked only grow, and while a
\* function's value is awaited that function is the last one invoked.
C4_InOrder ==
  \A t \in Tasks :
    LET lg == tasks[t].log IN
    /\ \A j \in 1 .. Len(lg) : lg[j].seen = lg[j].pos
    /\ \A i \in 1 .. Len(lg) : \A j \in 1 .. Len(lg) :
         i < j => lg[i].pos < lg[j].pos
    /\ tasks[t].pc = "await_fn" =>
         (lg # <<>> /\ lg[Len(lg)].pos = Len(tasks[t].hist))
    /\ tasks[t].pc = "done" => Len(tasks[t].hist) = Len(tasks[t].pipe.ops) + 1

\* two functions ran, the first one async, in append order
C4_Witness ==
  \E t \in Tasks :
    /\ tasks[t].pc = "done"
    /\ Len(tasks[t].log) = 2
    /\ tasks[t].pipe.ops[1].isAsync
    /\ tasks[t].log[1].pos = 1 /\ tasks[t].log[2].pos = 2

\* C5: a function of map / and_then / tee is invoked only on an Ok, a
\* function of map_err / or_else / inspect_err only on an Err; an operation
\* reached on the other tag leaves `result` as it is.
C5_ShortCircuit ==
  \A t \in Tasks :
    /\ \A j \in 1 .. Len(tasks[t].log) :
         LET e == tasks[t].log[j]
             r == tasks[t].hist[e.pos] IN
         /\ OpOf(t, e.pos).kind \in OkKinds => r.tag = "Ok"
         /\ OpOf(t, e.pos).kind \in ErrKinds => r.tag = "Err"
    /\ \A i \in StepsDone(t) :
         LET r == tasks[t].hist[i] IN
         ((r.tag = "Err" /\ OpOf(t, i).kind \in OkKinds)
            \/ (r.tag = "Ok" /\ OpOf(t, i).kind \in ErrKinds))
           => /\ tasks[t].hist[i + 1] = r
              /\ \A j \in 1 .. Len(tasks[t].log) : tasks[t].log[j].pos # i

\* and_then returned an Err and the map after it was skipped
C5_Witness ==
  \E t \in Tasks :
    /\ tasks[t].pc = "done"
    /\ Len(tasks[t].pipe.ops) = 2
    /\ OpOf(t, 1).kind = "and_then" /\ OpOf(t, 2).kind = "map"
    /\ OpOf(t, 2).fn = "inc"
    /\ tasks[t].hist[1].tag = "Ok" /\ tasks[t].hist[2].tag = "Err"
    /\ Len(tasks[t].log) = 1
    /\ tasks[t].out = tasks[t].hist[2]

C7_Uniform ==
  \A t \in Tasks :
    (Finished(t) /\ ~SourceFails(tasks[t].pipe)) =>
      LET ref == Run(Start(Desync(tasks[t].pipe), {})) IN
      /\ tasks[t].pc = ref.pc
      /\ tasks[t].out = ref.out
      /\ tasks[t].hist = ref.hist
      /\ tasks[t].log = ref.log

\* a coroutine source, an async map and a plain map, collected
C7_Witness ==
  \E t \in Tasks :
    /\ tasks[t].pc = "done"
    /\ tasks[t].pipe.source.tag = "coro"
    /\ Len(tasks[t].pipe.ops) = 2
    /\ OpOf(t, 1) = Op("map", "inc", TRUE)
    /\ OpOf(t, 2) = Op("map", "toOk", FALSE)
    /\ tasks[t].out = Ok(Ok(Raw(1)))

\* C8: a failure of the awaited source, of a function, or of the value a
\* function returned, ends collect() with that very exception: no result is
\* recorded for the operation or any later one, nothing more is invoked,
\* and a collect() that returned had no failure.
C8_Propagates ==
  \A t \in Tasks :
    /\ (Started(t) /\ SourceFails(tasks[t].pipe) /\ tasks[t].pc # "await_source")
         => /\ tasks[t].pc = "raised"
            /\ tasks[t].out = tasks[t].pipe.source.val.v
            /\ tasks[t].hist = <<>> /\ tasks[t].log = <<>>
    /\ \A j \in 1 .. Len(tasks[t].log) :
         LET e == tasks[t].log[j]
             o == Apply(e.fn, e.arg) IN
         o.k = "raise" =>
           /\ j = Len(tasks[t].log)
           /\ Len(tasks[t].hist) = e.pos
           /\ tasks[t].pc \in {"await_fn", "raised"}
           /\ tasks[t].pc = "await_fn" => OpOf(t, e.pos).isAsync
           /\ tasks[t].pc = "raised" => tasks[t].out = o.v
    /\ tasks[t].pc = "raised" => tasks[t].out.tag = "exc"
    /\ tasks[t].pc = "done" => tasks[t].out = tasks[t].hist[Len(tasks[t].hist)]

\* the value of an async function failed at the second operation
C8_Witness ==
  \E t \in Tasks :
    /\ tasks[t].pc = "raised"
    /\ tasks[t].out = Exc("Boom")
    /\ Len(tasks[t].hist) = 2
    /\ OpOf(t, 2) = Op("map_err", "boom", TRUE)
    /\ Len(tasks[t].log) = 2

\* C9: a tee / inspect_err operation leaves `result` as it was, whatever
\* its function returned; reached on its tag, its function was invoked on
\* the payload.
C9_TeeUnchanged ==
  \A t \in Tasks : \A i \in StepsDone(t) :
    LET r == tasks[t].hist[i]
        op == OpOf(t, i) IN
    op.kind \in {"tee", "inspect_err"} =>
      /\ tasks[t].hist[i + 1] = r
      /\ Acts(op.kind, r) =>
           \E j \in 1 .. Len(tasks[t].log) :
             tasks[t].log[j] = [pos |-> i, fn |-> op.fn, arg |-> r.val, seen |-> i]

\* an async tee function returned an Err, an inspect_err was skipped
C9_Witness ==
  \E t \in Tasks :
    /\ tasks[t].pc = "done"
    /\ Len(tasks[t].pipe.ops) = 2
    /\ OpOf(t, 1) = Op("tee", "toErr", TRUE)
    /\ OpOf(t, 2).kind = "inspect_err"
    /\ tasks[t].hist[1] = Ok(Raw(0))
    /\ Len(tasks[t].log) = 1
    /\ tasks[t].out = Ok(Raw(0))

\* C10: flatten replaces an Ok whose payload is a Result by that payload
\* and leaves every other `result` unchanged, so that what it leaves is a
\* Result.
C10_FlattenResult ==
  \A t \in Tasks : \A i \in StepsDone(t) :
    LET r == tasks[t].hist[i] IN
    OpOf(t, i).kind = "flatten" =>
      /\ tasks[t].hist[i + 1] = IF is_ok(r) /\ IsResult(r.val) THEN r.val ELSE r
      /\ IsResult(tasks[t].hist[i + 1])

\* ------------------------------------------------- concurrent collect()s
IsPrefix(a, b) == Len(a) <= Len(b) /\ a = SubSeq(b, 1, Len(a))

\* C11: collect() calls interleaved at their awaits, on one pipeline or on
\* pipelines sharing a concrete source, do not interfere: at every point a
\* call has gone through the values and invocations of the call run alone,
\* and once ended it returned or raised what the call run alone does.
C11_NoInterference ==
  \A t \in Tasks :
    (Started(t) /\ ~isawaitable(tasks[t].pipe.source)) =>
      LET alone == FirstCollect(tasks[t].pipe) IN
      /\ IsPrefix(tasks[t].hist, alone.hist)
      /\ IsPrefix(tasks[t].log, alone.log)
      /\ Finished(t) =>
           /\ tasks[t].pc = alone.pc
           /\ tasks[t].out = alone.out
           /\ tasks[t].hist = alone.hist
           /\ tasks[t].log = alone.log

\* two collect()s of one pipeline of two operations were under way at the
\* same time; the one called last has returned, the other is still awaiting
C11_Witness ==
  /\ tasks[1].pc = "await_fn"
  /\ tasks[2].pc = "done"
  /\ tasks[2].pipe = tasks[1].pipe
  /\ ~isawaitable(tasks[1].pipe.source)
  /\ Len(tasks[1].pipe.ops) = 2
  /\ Len(tasks[2].log) = 2

\* ------------------------------------------------------------ termination
\* A collect() is never left between two operations; one that returned has
\* stepped over each operation once and returns the last `result`; one that
\* did not return ended with an exception.
CollectSteps(t) ==
  /\ tasks[t].pc \in {"idle", "await_source", "await_fn", "done", "raised"}
  /\ tasks[t].pc \in {"await_source", "await_fn"} => isawaitable(tasks[t].pend)
  /\ tasks[t].pc = "done" =>
       /\ tasks[t].idx = Len(tasks[t].pipe.ops) + 1
       /\ Len(tasks[t].hist) = Len(tasks[t].pipe.ops) + 1
       /\ tasks[t].out = tasks[t].hist[Len(tasks[t].hist)]
  /\ tasks[t].pc = "raised" =>
       /\ tasks[t].out.tag = "exc"
       /\ Len(tasks[t].hist) <= Len(tasks[t].pipe.ops)

\* C12: a collect() that was called, every value it awaits resolving or
\* failing in the end, finishes: it returns after one step over each queued
\* operation or ends with the first exception, and stops nowhere else.
C12_Terminates == [](CollectSteps(1)) /\ (Started(1) ~> Finished(1))

\* a collect() suspended on its source and on both of its operations returned
C12_Witness ==
  /\ tasks[1].pc = "done"
  /\ isawaitable(tasks[1].pipe.source)
  /\ Len(tasks[1].pipe.ops) = 2
  /\ tasks[1].pipe.ops[1].isAsync /\ tasks[1].pipe.ops[2].isAsync
  /\ Len(tasks[1].log) = 2

\* ------------------------------------------------------ the Result methods
\* C13: map, and_then and tee called on an Err, and map_err, or_else and
\* inspect_err called on an Ok, invoke their function not once and return a
\* value equal to the receiver.
C13_EagerShortCircuit ==
  ((res.method \in {"map", "and_then", "tee"} /\ res.self.tag = "Err")
     \/ (res.method \in {"map_err", "or_else", "inspect_err"} /\ res.self.tag = "Ok"))
    => /\ res.invoked = <<>>
       /\ res.out = Ret(res.self)

\* map with a function that raises was called on an Err: Err returned
C13_Witness ==
  /\ res.method = "map"
  /\ res.self = Err(Raw(1))
  /\ res.arg = "boom"
  /\ res.invoked = <<>>
  /\ res.out = Ret(Err(Raw(1)))

\* a value and, for a Result, the Results nested in it
RECURSIVE Nested(_)
Nested(v) == IF IsResult(v) THEN {v} \cup Nested(v.val) ELSE {}

\* the Results a call was made on, returned, or carried as a payload
ResultsInCall ==
  Nested(res.self) \cup (IF res.out.k = "ret" THEN Nested(res.out.v) ELSE {})

\* C14: of every Result a method is called on or returns, at any level of
\* nesting, exactly one of is_ok() and is_err() holds: is_ok() of the
\* values Ok built, is_err() of the values Err built; and the receiver a
\* side-effect method hands back has the tag it was called with.
C14_TagExclusive ==
  /\ \A x \in ResultsInCall :
       /\ (is_ok(x) /\ ~is_err(x)) \/ (is_err(x) /\ ~is_ok(x))
       /\ is_ok(x) <=> (\E v \in Nested(x) \cup {x.val} : x = Ok(v))
       /\ is_err(x) <=> (\E v \in Nested(x) \cup {x.val} : x = Err(v))
  /\ (res.method \in {"tee", "inspect_err"} /\ res.out.k = "ret")
       => (is_ok(res.out.v) <=> is_ok(res.self))

\* or_else turned an Err holding an Err into an Ok holding it
C14_Witness ==
  /\ res.method = "or_else"
  /\ res.self = Err(Err(Raw(0)))
  /\ res.arg = "toOk"
  /\ res.out = Ret(Ok(Err(Raw(0))))

\* C15: map called with the identity function returns a value equal to its
\* receiver, Ok or Err; and_then called with x => Ok(x) returns a value
\* equal to its receiver, Ok or Err.
C15_Identity ==
  /\ (res.method = "map" /\ res.arg = "id") => res.out = Ret(res.self)
  /\ (res.method = "and_then" /\ res.arg = "toOk") => res.out = Ret(res.self)

\* and_then with x => Ok(x) was called on an Ok holding a Result and
\* invoked the function on it
C15_Witness ==
  /\ res.method = "and_then"
  /\ res.arg = "toOk"
  /\ res.self = Ok(Err(Raw(1)))
  /\ res.invoked = <<Err(Raw(1))>>
  /\ res.out = Ret(Ok(Err(Raw(1))))

\* C16: flatten removes one level of nesting and no more: called on an Ok
\* holding a Result it returns that Result as it is, so Ok(Ok(Ok(n))) gives
\* Ok(Ok(n)) and not Ok(n), and Ok(Err(e)) gives Err(e); called on an Err it
\* returns an equal Err, whatever the Err holds.
C16_FlattenOnce ==
  res.method = "flatten" =>
    /\ (is_ok(res.self) /\ IsResult(res.self.val)) => res.out = Ret(res.self.val)
    /\ is_err(res.self) => res.out = Ret(res.self)
    /\ \A n \in Numbers :
         res.self = Ok(Ok(Ok(n))) => (res.out = Ret(Ok(Ok(n))) /\ res.out # Ret(Ok(n)))

\* flatten was called on a Result nested three deep
C16_Witness ==
  /\ res.method = "flatten"
  /\ res.self = Ok(Ok(Ok(Raw(1))))
  /\ res.out = Ret(Ok(Ok(Raw(1))))

\* --------------------------------------------------- sequence and traverse
\* the positions of the Errs in a list of Results, and the least of a
\* non-empty set of positions
ErrsIn(items) == {i \in 1 .. Len(items) : items[i].tag = "Err"}
Least(S) == CHOOSE i \in S : \A j \in S : i <= j

\* C17: sequence of a list of Results returns an Err equal to the first
\* Err of the list if there is one, and otherwise Ok of the list of the
\* payloads in the order of the items; Ok of the empty list for no item.
C17_Sequence ==
  (res.method = "sequence" /\ res.self.tag = "list") =>
    LET items == res.self.val IN
    /\ ErrsIn(items) # {} => res.out = Ret(items[Least(ErrsIn(items))])
    /\ ErrsIn(items) = {} =>
         res.out = Ret(Ok(List([i \in 1 .. Len(items) |-> items[i].val])))
    /\ items = <<>> => res.out = Ret(Ok(List(<<>>)))

\* sequence([Ok(1), Err(0), Err(1)]) returned Err(0)
C17_Witness ==
  /\ res.method = "sequence"
  /\ res.self = List(<<Ok(Raw(1)), Err(Raw(0)), Err(Raw(1))>>)
  /\ res.out = Ret(Err(Raw(0)))

\* sequence of three Oks returned their payloads in order
C17_WitnessOk ==
  /\ res.method = "sequence"
  /\ res.self = List(<<Ok(Raw(1)), Ok(Raw(0)), Ok(Raw(0))>>)
  /\ res.out = Ret(Ok(List(<<Raw(1), Raw(0), Raw(0)>>)))

\* the i-th item of the iterable is there and is an Ok / an Err
YieldsOk(it, i) == Yield(it, i).k = "ret" /\ Yield(it, i).v.tag = "Ok"
YieldsErr(it, i) == Yield(it, i).k = "ret" /\ Yield(it, i).v.tag = "Err"

\* C18: sequence asks its iterable for the items one at a time and in
\* order, every item before the last one asked for was an Ok, and an item
\* that is an Err is the last one asked for: the Err is returned with no
\* later item requested, and none evaluated when the items are produced on
\* request.
C18_FailFast ==
  res.method = "sequence" =>
    LET it == res.self
        n == Len(ItemsOf(it))
        k == Len(res.pulled) IN
    /\ res.pulled = [j \in 1 .. k |-> j]
    /\ k >= 1 /\ k <= n + 1
    /\ \A j \in 1 .. (k - 1) : YieldsOk(it, j)
    /\ \A j \in 1 .. n : (YieldsErr(it, j) /\ \A i \in 1 .. (j - 1) : YieldsOk(it, i))
         => /\ k = j
            /\ res.out = Yield(it, j)
    /\ it.tag = "gen" =>
         res.invoked = SubSeq(ItemsOf(it), 1, IF k > n THEN n ELSE k)
    /\ it.tag = "list" => res.invoked = <<>>

\* the second of three items produced on request was an Err: two items
\* were asked for and evaluated, the third never
C18_Witness ==
  /\ res.method = "sequence"
  /\ res.self = Gen(<<Raw(0), Raw(1), Raw(0)>>, "maybe_fail")
  /\ res.pulled = <<1, 2>>
  /\ res.invoked = <<Raw(0), Raw(1)>>
  /\ res.out = Ret(Err(Raw(1)))

\* C19: traverse invokes fn on the items in order, on none that comes
\* after the first one fn returned an Err for, and, fn returning for every
\* item, returns or raises what sequence does on the list of fn's values.
C19_Traverse ==
  res.method = "traverse" =>
    LET items == res.self.val
        fn == res.arg
        m == Len(res.invoked) IN
    /\ m <= Len(items)
    /\ res.invoked = SubSeq(items, 1, m)
    /\ \A j \in 1 .. Len(items) :
         (Apply(fn, items[j]).k = "ret" /\ Apply(fn, items[j]).v.tag = "Err") => m <= j
    /\ (\A j \in 1 .. Len(items) : Apply(fn, items[j]).k = "ret") =>
         res.out = sequence(List([j \in 1 .. Len(items) |-> Apply(fn, items[j]).v])).out

\* fn returned an Err for the second of three items: traverse returned it
\* and the third item was never handed to fn
C19_Witness ==
  /\ res.method = "traverse"
  /\ res.self = List(<<Raw(0), Raw(1), Raw(0)>>)
  /\ res.arg = "maybe_fail"
  /\ res.invoked = <<Raw(0), Raw(1)>>
  /\ res.out = Ret(Err(Raw(1)))

\* ---------------------------------------------------------- unwrap, expect
\* the call raised an UnwrapError carrying the value v
RaisedUnwrapError(v) ==
  /\ res.out.k = "raise"
  /\ res.out.v.tag = "UnwrapError"
  /\ res.out.v.val.value = v

\* the message of the exception raised starts with the caller's message
StartsWithMsg == IsPrefix(<<res.arg>>, res.out.v.val.message)

\* C20: unwrap and expect return the payload of an Ok and raise
\* UnwrapError carrying the error on an Err; unwrap_err and expect_err
\* return the payload of an Err and raise UnwrapError carrying the value on
\* an Ok; the message of what expect / expect_err raise starts with the
\* caller's message.
C20_Unwrap ==
  /\ (res.method \in {"unwrap", "expect"} /\ res.self.tag = "Ok")
       => res.out = Ret(res.self.val)
  /\ (res.method \in {"unwrap_err", "expect_err"} /\ res.self.tag = "Err")
       => res.out = Ret(res.self.val)
  /\ (res.method \in {"unwrap", "expect"} /\ res.self.tag = "Err")
       => RaisedUnwrapError(res.self.val)
  /\ (res.method \in {"unwrap_err", "expect_err"} /\ res.self.tag = "Ok")
       => RaisedUnwrapError(res.self.val)
  /\ ((res.method = "expect" /\ res.self.tag = "Err")
        \/ (res.method = "expect_err" /\ res.self.tag = "Ok"))
       => StartsWithMsg

\* Err(1).expect("custom message") raised UnwrapError("custom message: 1")
\* carrying 1
C20_Witness ==
  /\ res.method = "expect"
  /\ res.self = Err(Raw(1))
  /\ res.arg = "custom message"
  /\ res.out = RaiseExc(UnwrapError(<<"custom message", ": ", "1">>, Raw(1)))

\* ------------------------------------------------------------ ok() / err()
\* C21: ok() returns Some of the payload of an Ok and NOTHING for an Err,
\* err() returns Some of the payload of an Err and NOTHING for an Ok; what
\* Ok(None).ok() returns is not what ok() returns for an Err.
C21_ToOption ==
  /\ (res.method = "ok" /\ res.self.tag = "Ok") => res.out = Ret(Some(res.self.val))
  /\ (res.method = "ok" /\ res.self.tag = "Err") => res.out = Ret(NOTHING)
  /\ (res.method = "err" /\ res.self.tag = "Err") => res.out = Ret(Some(res.self.val))
  /\ (res.method = "err" /\ res.self.tag = "Ok") => res.out = Ret(NOTHING)
  /\ (res.method = "ok" /\ res.self = Ok(None)) =>
       \A e \in Numbers : res.out # Result_ok(Err(e))

\* -------------------------------------------------------------- JSON codec
\* a Result or an Option, or a list or dict holding one at some depth
RECURSIVE HoldsTagged(_)
HoldsTagged(v) ==
  \/ v.tag \in {"Ok", "Err", "Some", "Nothing"}
  \/ v.tag \in {"list", "dict"} /\ \E k \in DOMAIN v.val : HoldsTagged(v.val[k])

\* C22: every Result or Option value, alone or inside lists and dicts, is
\* encoded by dumps, and loads of the text returns a value equal to it,
\* whatever its payload: None, a nested Result or Option, a dict that holds
\* the discriminator key.
C22_RoundTrip ==
  /\ (res.method = "dumps" /\ HoldsTagged(res.self)) => res.out.k = "ret"
  /\ res.method = "loads" =>
       \A R \in SerdeValues :
         (HoldsTagged(R) /\ dumps(R) = Ret(res.self)) => res.out = Ret(R)

\* ------------------------------------------------- context / ChainedError
\* C23: context(label) on an Ok returns it as it is; on an Err it returns an
\* Err whose payload is a ChainedError with that label outermost, in front of
\* the labels the payload already had, with the same root cause, which is not
\* a ChainedError, and rendered as the label, ": " and the payload's
\* rendering; so "level2" on top of "level1" on top of "root" is rendered
\* "level2: level1: root", with root cause "root" and chain
\* ["level2", "level1"].
C23_Context ==
  res.method = "context" =>
    /\ is_ok(res.self) => res.out = Ret(res.self)
    /\ is_err(res.self) =>
         /\ res.out.k = "ret"
         /\ is_err(res.out.v)
         /\ LET e == unwrap_err(res.out.v)
                p == unwrap_err(res.self) IN
            /\ e.tag = "ChainedError"
            /\ chain(e) = <<res.arg>> \o chain(p)
            /\ root_cause(e) = root_cause(p)
            /\ root_cause(e).tag # "ChainedError"
            /\ str(e) = <<res.arg, ": ">> \o str(p)
            /\ (res.arg = "level2" /\ chain(p) = <<"level1">>
                  /\ root_cause(p) = Str("root")) =>
                 /\ str(e) = <<"level2", ": ", "level1", ": ", "root">>
                 /\ root_cause(e) = Str("root")
                 /\ chain(e) = <<"level2", "level1">>

C23_Witness ==
  /\ res.method = "context"
  /\ res.arg = "level2"
  /\ res.self = Err(ChainedError("level1", Str("root")))
  /\ res.out.k = "ret"
  /\ str(unwrap_err(res.out.v)) = <<"level2", ": ", "level1", ": ", "root">>

\* -------------------------------------------------------------------- zip
\* C24: a.zip(b) is Ok of the pair of payloads when both are Ok, the one Err
\* when exactly one is an Err, and the receiver's Err when both are.
C24_Zip ==
  res.method = "zip" =>
    LET a == res.self
        b == res.arg IN
    /\ (is_ok(a) /\ is_ok(b)) => res.out = Ret(Ok(Tuple(<<a.val, b.val>>)))
    /\ (is_ok(a) /\ is_err(b)) => res.out = Ret(b)
    /\ (is_err(a) /\ is_ok(b)) => res.out = Ret(a)
    /\ (is_err(a) /\ is_err(b)) => res.out = Ret(a)

C24_Witness ==
  /\ res.method = "zip"
  /\ is_err(res.self)
  /\ is_err(res.arg)
  /\ res.self # res.arg
  /\ res.out = Ret(res.self)

\* --------------------------------------------------------- async variants
\* C25: awaiting map_async, map_err_async, and_then_async or or_else_async
\* with an async function that computes what fn does yields what map,
\* map_err, and_then or or_else with fn returns (or raises), and the
\* function is invoked on the same arguments.
SameAsSync(d) == res.out = d.out /\ res.invoked = d.invoked

C25_AsyncAsSync ==
  /\ res.method = "map_async" => SameAsSync(Result_map(res.self, res.arg))
  /\ res.method = "map_err_async" => SameAsSync(Result_map_err(res.self, res.arg))
  /\ res.method = "and_then_async" => SameAsSync(Result_and_then(res.self, res.arg))
  /\ res.method = "or_else_async" => SameAsSync(Result_or_else(res.self, res.arg))

C25_Witness ==
  /\ res.method = "map_async"
  /\ res.self = Ok(Raw(0))
  /\ res.arg = "inc"
  /\ res.invoked = <<Raw(0)>>
  /\ res.out = Ret(Ok(Raw(1)))

\* ------------------------------------------------------ suspension points
\* the functions of the pipeline p are plain functions: none returns a
\* pending value
AllSync(p) == \A i \in 1 .. Len(p.ops) : ~p.ops[i].isAsync

\* C26: a collect() is suspended only on its pending source, before any
\* operation, or on the pending value the function of the operation it is at
\* returned; it is never left anywhere else, so a collect() of a pipeline
\* with a concrete source and plain functions is over in the step that
\* called it, whatever the other tasks are doing.
C26_Suspension ==
  \A t \in Tasks :
    LET tk == tasks[t] IN
    /\ tk.pc \in {"idle", "await_source", "await_fn", "done", "raised"}
    /\ tk.pc = "await_source" =>
         /\ isawaitable(tk.pipe.source)
         /\ tk.pend = tk.pipe.source
         /\ tk.hist = <<>> /\ tk.log = <<>>
    /\ tk.pc = "await_fn" =>
         LET op == tk.pipe.ops[tk.idx] IN
         /\ op.kind \in FnKinds
         /\ op.isAsync
         /\ isawaitable(tk.pend)
         /\ Ret(tk.pend) = Call(op, Payload(op.kind, tk.cur))
    /\ (Started(t) /\ ~isawaitable(tk.pipe.source) /\ AllSync(tk.pipe))
         => Finished(t)

\* a collect() of a concrete source and plain functions, each of them
\* invoked, has returned while the other collect() is suspended on its source
C26_Witness ==
  /\ tasks[1].pc = "await_source"
  /\ tasks[2].pc = "done"
  /\ ~isawaitable(tasks[2].pipe.source)
  /\ AllSync(tasks[2].pipe)
  /\ Len(tasks[2].pipe.ops) >= 1
  /\ Len(tasks[2].log) = Len(tasks[2].pipe.ops)

\* ------------------------------------------------------------ tag pinning
\* C27: the tag of `result` after a step differs from the tag before it only
\* when the step is an and_then, an or_else or a flatten; map, map_err, tee
\* and inspect_err leave the tag as it was.
C27_TagPinned ==
  \A t \in Tasks : \A i \in StepsDone(t) :
    /\ tasks[t].hist[i].tag # tasks[t].hist[i + 1].tag
         => OpOf(t, i).kind \in {"and_then", "or_else", "flatten"}
    /\ OpOf(t, i).kind \in {"map", "map_err", "tee", "inspect_err"}
         => tasks[t].hist[i + 1].tag = tasks[t].hist[i].tag

\* a map ran on an Ok and left an Ok, the and_then after it left an Err
C27_Witness ==
  \E t \in Tasks :
    /\ tasks[t].pc = "done"
    /\ Len(tasks[t].pipe.ops) = 2
    /\ OpOf(t, 1) = Op("map", "inc", FALSE)
    /\ OpOf(t, 2).kind = "and_then"
    /\ Len(tasks[t].log) = 2
    /\ tasks[t].hist[1].tag = "Ok"
    /\ tasks[t].hist[2].tag = "Ok"
    /\ tasks[t].hist[3].tag = "Err"

\* ------------------------------------------------------- lazy versus eager
\* r.map(fn), r.map_err(fn) ... r.flatten(): the Result method named as the
\* operation, called on the value v; a value that is no Result has no such
\* method (AttributeError).
EagerCall(v, op) ==
  IF ~IsResult(v) THEN Did(Raise("AttributeError"), <<>>, <<>>)
  ELSE CASE op.kind = "map" -> Result_map(v, op.fn)
         [] op.kind = "map_err" -> Result_map_err(v, op.fn)
         [] op.kind = "and_then" -> Result_and_then(v, op.fn)
         [] op.kind = "or_else" -> Result_or_else(v, op.fn)
         [] op.kind = "tee" -> Result_tee(v, op.fn)
         [] op.kind = "inspect_err" -> Result_inspect_err(v, op.fn)
         [] op.kind = "flatten" -> Did(Result_flatten(v), <<>>, <<>>)

\* The methods of ops[i], ops[i + 1] ... called one on the value of the
\* other, starting from the call d: what the last one returns, or the first
\* exception, and the functions invoked with their arguments, in order.
RECURSIVE Eager(_, _, _)
Eager(d, ops, i) ==
  IF i > Len(ops) \/ d.out.k = "raise" THEN d
  ELSE LET s == EagerCall(d.out.v, ops[i]) IN
       Eager(Did(s.out,
                 d.invoked \o [j \in 1 .. Len(s.invoked) |->
                                 [fn |-> ops[i].fn, arg |-> s.invoked[j]]],
                 <<>>),
             ops, i + 1)

\* C28: a collect() of r.lazy() with plain functions chained returns the
\* value (or raises the exception) that the Result methods of the same
\* names, called in the same order on r, return (or raise), and invokes the
\* same functions on the same arguments in the same order.
C28_LazyAsEager ==
  \A t \in Tasks :
    LET tk == tasks[t]
        e == Eager(Did(Ret(tk.pipe.source), <<>>, <<>>), tk.pipe.ops, 1) IN
    (Finished(t) /\ IsResult(tk.pipe.source) /\ AllSync(tk.pipe)) =>
      /\ tk.pc = "done" => e.out = Ret(tk.out)
      /\ tk.pc = "raised" => e.out = RaiseExc(tk.out)
      /\ e.invoked = [j \in 1 .. Len(tk.log) |->
                        [fn |-> tk.log[j].fn, arg |-> tk.log[j].arg]]

\* Ok(Ok(0)).lazy().flatten().map(inc) was collected
C28_Witness ==
  \E t \in Tasks :
    /\ tasks[t].pc = "done"
    /\ tasks[t].pipe.source = Ok(Ok(Raw(0)))
    /\ tasks[t].pipe.ops = <<FlattenOp, Op("map", "inc", FALSE)>>
    /\ tasks[t].out = Ok(Raw(1))
    /\ Len(tasks[t].log) = 1

\* ------------------------------------------------------- at most one call
\* the invocations the collect() of task t made of the function at position i
CallsAt(t, i) == {j \in 1 .. Len(tasks[t].log) : tasks[t].log[j].pos = i}

\* C29: in one collect() the function of each operation is invoked at most
\* once; the function of an operation the collect() has reached is invoked
\* once when `result` has the tag the operation acts on, with the payload of
\* that `result`, and not at all otherwise; the function of an operation not
\* reached is not invoked.
C29_AtMostOnce ==
  \A t \in Tasks :
    LET tk == tasks[t]
        reached == IF tk.pc \in {"await_fn", "raised"} /\ tk.hist # <<>>
                     THEN 1 .. Len(tk.hist) ELSE StepsDone(t) IN
    \A i \in 1 .. Len(tk.pipe.ops) :
      /\ Cardinality(CallsAt(t, i)) <= 1
      /\ i \notin reached => CallsAt(t, i) = {}
      /\ i \in reached =>
           LET op == OpOf(t, i)
               r == tk.hist[i] IN
           IF op.kind \in FnKinds /\ IsResult(r) /\ Acts(op.kind, r)
             THEN \E j \in CallsAt(t, i) :
                    tk.log[j].fn = op.fn /\ tk.log[j].arg = r.val
             ELSE CallsAt(t, i) = {}

\* Err(0): the map was stepped over, the async map_err was invoked once
C29_Witness ==
  \E t \in Tasks :
    /\ tasks[t].pc = "done"
    /\ tasks[t].pipe.source = Err(Raw(0))
    /\ tasks[t].pipe.ops = <<Op("map", "inc", FALSE), Op("map_err", "inc", TRUE)>>
    /\ CallsAt(t, 1) = {}
    /\ CallsAt(t, 2) = {1}
    /\ tasks[t].out = Err(Raw(1))

\* ------------------------------------------------------ failure at step k
\* C30: when collect() ends with an exception raised at step k (the source
\* is step 0, the operations steps 1, 2, ...), no function of an operation
\* after k was invoked by it, no result was recorded for step k or a later
\* one, and the pipeline it was called on is there as it was, with its
\* source and its operations.
C30_FailureStops ==
  \A t \in Tasks :
    tasks[t].pc = "raised" =>
      LET k == Len(tasks[t].hist) IN
      /\ k <= Len(tasks[t].pipe.ops)
      /\ \A j \in 1 .. Len(tasks[t].log) : tasks[t].log[j].pos <= k
      /\ \A c \in calls : c.task = t => c.pos <= k
      /\ \A i \in (k + 1) .. Len(tasks[t].pipe.ops) : CallsAt(t, i) = {}
      /\ tasks[t].pipe \in pipes

\* Ok(0).lazy().map(boom).map(inc): the first function raised, the second
\* one was not invoked, the pipeline is as it was
C30_Witness ==
  \E t \in Tasks :
    /\ tasks[t].pc = "raised"
    /\ tasks[t].out = Exc("Boom")
    /\ tasks[t].pipe = LazyResult(Ok(Raw(0)),
                         <<Op("map", "boom", FALSE), Op("map", "inc", FALSE)>>)
    /\ Len(tasks[t].log) = 1
    /\ pipes = {tasks[t].pipe}

====
